---- MODULE Spec2Model ----
(***************************************************************************)
(* A model of the hash-linked conversation log of cddigi/GenAI             *)
(* (src/grace-cli.py, and the in-memory variant of                         *)
(* src/integrated_nlp_blockchain_system.py).                               *)
(*                                                                         *)
(* Text.  A Python str is a sequence of tokens; consecutive tokens are     *)
(* separated by one blank.  A token is a record [lab, ip, fp]: the text    *)
(* lab, followed (when ip >= 0) by a blank and the numeral "ip.fp".        *)
(* The token "\n" is a line feed, "\\n" is a backslash followed by n.      *)
(* Floats are kept as integers in units of 1/12000, in which the means of  *)
(* three and of four scores are whole; 0.7 + 0.2 is taken to be 0.9.       *)
(***************************************************************************)
EXTENDS Integers, Sequences, FiniteSets, TLC

VARIABLES
    variant,   \* the program that runs: "grace-cli" or "integrated"
    ledger,    \* "closed": no process runs; "open": nlp_chain is constructed
    chain,     \* nlp_chain.chain, the Blocks in memory
    file,      \* the file hopper/blockchain.json
    context,   \* main's running context string
    now,       \* the clock datetime.now() reads
    reply,     \* the grace_response of the last process_grace_response call
    result,    \* the result that call returned ("" before the first call)
    before,    \* chain, file and context as they were when that call began
    saved,     \* the chain in memory at the last save_chain
    query,     \* <<q>> after query_knowledge(q), <<>> otherwise
    results,   \* the list that query_knowledge call returned
    opened,    \* how the last construction of nlp_chain ended
    appended,  \* the add_block calls made since the chain was created
    tampers    \* how many times the file was edited outside the program

vars == <<variant, ledger, chain, file, context, now, reply, result, before, saved,
          query, results, opened, appended, tampers>>

(***************************************************************************)
(* Bounds of the model.                                                    *)
(***************************************************************************)
MaxBlocks == 2
MaxClock == 1
MaxTextLen == 4
MaxTampers == 1

(***************************************************************************)
(* Tokens and texts.                                                       *)
(***************************************************************************)
W(l) == [lab |-> l, ip |-> -1, fp |-> 0]
N(l, i, f) == [lab |-> l, ip |-> i, fp |-> f]

NL == W("\n")
ESCNL == W("\\n")

SeqsUpTo(S, n) == UNION {[1..k -> S] : k \in 0..n}

RECURSIVE Concat(_)
Concat(ss) == IF ss = <<>> THEN <<>> ELSE Head(ss) \o Concat(Tail(ss))

\* str.lower() on the text of one token
LowerOf(l) ==
    CASE l = "Genesis" -> "genesis"
      [] l = "Block" -> "block"
      [] l = "EXIT" -> "exit"
      [] l = "Conversation" -> "conversation"
      [] l = "CONTEXT" -> "context"
      [] l = "WORD" -> "word"
      [] l = "Summary" -> "summary"
      [] l = "Translation" -> "translation"
      [] l = "True" -> "true"
      [] l = "False" -> "false"
      [] l = "None" -> "none"
      [] l = "Grammatically Complete" -> "grammatically complete"
      [] l = "Logically Consistent" -> "logically consistent"
      [] l = "AI Inquiry" -> "ai inquiry"
      [] l = "Content Language" -> "content language"
      [] l = "GenAI Confidence Assessment:" -> "genai confidence assessment:"
      [] l = "Reliability:" -> "reliability:"
      [] l = "Performance:" -> "performance:"
      [] l = "Context Coherence:" -> "context coherence:"
      [] OTHER -> l

lower(s) == [i \in 1..Len(s) |-> [s[i] EXCEPT !.lab = LowerOf(s[i].lab)]]

\* sub in s, for a str sub made of whole tokens
Contains(s, sub) ==
    \E off \in 0..(Len(s) - Len(sub)) :
        \A j \in 1..Len(sub) : s[off + j] = sub[j]

\* the number of blank-separated words of one token's text
WordsOf(t) ==
    (CASE t.lab = "\n" -> 0
       [] LowerOf(t.lab) = "genai confidence assessment:" -> 3
       [] LowerOf(t.lab) = "context coherence:" -> 2
       [] OTHER -> 1)
    + (IF t.ip >= 0 THEN 1 ELSE 0)

RECURSIVE WordCount(_)
WordCount(s) == IF s = <<>> THEN 0 ELSE WordsOf(Head(s)) + WordCount(Tail(s))

\* str.strip(): leading and trailing white space removed
RECURSIVE lstrip(_)
lstrip(s) == IF s # <<>> /\ Head(s) = NL THEN lstrip(Tail(s)) ELSE s

RECURSIVE rstrip(_)
rstrip(s) ==
    IF s # <<>> /\ s[Len(s)] = NL THEN rstrip(SubSeq(s, 1, Len(s) - 1)) ELSE s

strip(s) == rstrip(lstrip(s))

\* str.replace("\n", "\\n")
replace_newlines(s) == [i \in 1..Len(s) |-> IF s[i] = NL THEN ESCNL ELSE s[i]]

(***************************************************************************)
(* ConfidenceScorer.                                                       *)
(***************************************************************************)
\* float() of the numeral of a token, in units of 1/12000
FloatOf(t) == 12000 * t.ip + 1200 * t.fp

\* the token matches  <label> (0\.\d+)  (no re.IGNORECASE)
MatchesScore(t, label) == t.lab = label /\ t.ip = 0

\* the least position after `from` whose token matches, 0 if none
FirstMatch(s, from, label) ==
    LET hits == {i \in (from + 1)..Len(s) : MatchesScore(s[i], label)}
    IN IF hits = {} THEN 0 ELSE CHOOSE i \in hits : \A j \in hits : i <= j

calculate_confidence_scores(text) ==
    LET word_count == WordCount(text)
        reliability == IF 12 * word_count < 11400 THEN 12 * word_count ELSE 11400
        performance == 9600
        hasContext == \E i \in 1..Len(text) :
                         LowerOf(text[i].lab) \in {"context", "context coherence:"}
        context_coherence == 8400 + 2400 * (IF hasContext THEN 1 ELSE 0)
    IN <<reliability, performance, context_coherence>>

extract_confidence_scores(text) ==
    LET r == FirstMatch(text, 0, "Reliability:")
        p == IF r = 0 THEN 0 ELSE FirstMatch(text, r, "Performance:")
        c == IF p = 0 THEN 0 ELSE FirstMatch(text, p, "Context Coherence:")
    IN IF c # 0
       THEN <<FloatOf(text[r]), FloatOf(text[p]), FloatOf(text[c])>>
       ELSE calculate_confidence_scores(text)

calculate_overall_confidence(a) ==
    (a.reliability + a.performance + a.context_coherence) \div 3

(***************************************************************************)
(* Python values: str, int, float and dict (insertion-ordered items).      *)
(***************************************************************************)
PyStr(s) == [t |-> "str", v |-> s]
PyInt(n) == [t |-> "int", v |-> n]
PyFloat(x) == [t |-> "float", v |-> x]
PyDict(items) == [t |-> "dict", v |-> items]
PyList(items) == [t |-> "list", v |-> items]
PyBool(b) == [t |-> "bool", v |-> b]
PyNone == [t |-> "None", v |-> 0]

\* d[key]
Get(d, key) == d.v[CHOOSE i \in 1..Len(d.v) : d.v[i][1] = key][2]

\* the text of a number: the numeral of the value
NumTok(x, kind) == [lab |-> kind, ip |-> x, fp |-> 0]

\* a line feed or a backslash inside a quoted string, as repr() and
\* json.dumps() write it
EscapeTok(t) ==
    CASE t.lab = "\n" -> [t EXCEPT !.lab = "\\n"]
      [] t.lab = "\\n" -> [t EXCEPT !.lab = "\\\\n"]
      [] t.lab = "\\\\n" -> [t EXCEPT !.lab = "\\\\\\\\n"]
      [] OTHER -> t

\* the inverse, as json.loads() reads a quoted string
UnescapeTok(t) ==
    CASE t.lab = "\\n" -> [t EXCEPT !.lab = "\n"]
      [] t.lab = "\\\\n" -> [t EXCEPT !.lab = "\\n"]
      [] t.lab = "\\\\\\\\n" -> [t EXCEPT !.lab = "\\\\n"]
      [] OTHER -> t

\* str(value) of a value inside an f-string: repr() for the items of a dict
RECURSIVE py_repr(_)
py_repr(x) ==
    CASE x.t = "str" ->
           <<W("'")>> \o [i \in 1..Len(x.v) |-> EscapeTok(x.v[i])] \o <<W("'")>>
      [] x.t = "dict" ->
           <<W("{")>>
           \o Concat([i \in 1..Len(x.v) |->
                        <<W("'"), W(x.v[i][1]), W("':")>> \o py_repr(x.v[i][2])])
           \o <<W("}")>>
      [] x.t = "list" ->
           <<W("[")>> \o Concat([i \in 1..Len(x.v) |-> py_repr(x.v[i])]) \o <<W("]")>>
      [] x.t = "bool" -> IF x.v THEN <<W("True")>> ELSE <<W("False")>>
      [] x.t = "None" -> <<W("None")>>
      [] OTHER -> <<NumTok(x.v, x.t)>>

(***************************************************************************)
(* JSON: a document is a tree of JSON values; strings are held escaped.    *)
(***************************************************************************)
\* json.dump that writes strings as they are
json_escape_raw(s) == s

\* json.load that reads strings as they are
json_unescape_raw(s) == s

json_escape(s) == [i \in 1..Len(s) |-> EscapeTok(s[i])]
json_unescape(s) == [i \in 1..Len(s) |-> UnescapeTok(s[i])]

\* the JSON value json.dump writes for a Python value (of the types that
\* grace-cli.py stores)
RECURSIVE ToJson(_)
ToJson(x) ==
    CASE x.t = "str" -> [t |-> "string", v |-> json_escape(x.v)]
      [] x.t = "dict" ->
           [t |-> "object",
            v |-> [i \in 1..Len(x.v) |-> <<x.v[i][1], ToJson(x.v[i][2])>>]]
      [] OTHER -> [t |-> "number", v |-> x.v, point |-> (x.t = "float")]

\* the Python value json.load builds for a JSON value
RECURSIVE FromJson(_)
FromJson(j) ==
    CASE j.t = "string" -> PyStr(json_unescape(j.v))
      [] j.t = "object" ->
           PyDict([i \in 1..Len(j.v) |-> <<j.v[i][1], FromJson(j.v[i][2])>>])
      [] OTHER -> IF j.point THEN PyFloat(j.v) ELSE PyInt(j.v)

\* the text json.dumps writes
RECURSIVE json_dumps(_)
json_dumps(x) ==
    CASE x.t = "str" -> <<W("\"")>> \o json_escape(x.v) \o <<W("\"")>>
      [] x.t = "dict" ->
           <<W("{")>>
           \o Concat([i \in 1..Len(x.v) |->
                        <<W("\""), W(x.v[i][1]), W("\":")>> \o json_dumps(x.v[i][2])])
           \o <<W("}")>>
      [] OTHER -> <<NumTok(x.v, x.t)>>

(***************************************************************************)
(* Block.                                                                  *)
(***************************************************************************)
\* hashlib.sha256(...).hexdigest(): one token, a different one for every
\* different input (no collisions)
sha256_hexdigest(hash_string) ==
    <<[lab |-> "sha256", ip |-> -1, fp |-> 0, of |-> hash_string]>>

calculate_hash(index, timestamp, data, previous_hash) ==
    LET hash_string ==
            <<NumTok(index.v, index.t)>> \o timestamp \o py_repr(data) \o previous_hash
    IN sha256_hexdigest(hash_string)

Block(index, timestamp, data, previous_hash) ==
    [index |-> index, timestamp |-> timestamp, data |-> data,
     previous_hash |-> previous_hash,
     hash |-> calculate_hash(index, timestamp, data, previous_hash)]

to_dict(block) ==
    PyDict(<< <<"index", block.index>>,
              <<"timestamp", PyStr(block.timestamp)>>,
              <<"data", block.data>>,
              <<"previous_hash", PyStr(block.previous_hash)>>,
              <<"hash", PyStr(block.hash)>> >>)

\* datetime.now().isoformat() at clock reading n
isoformat(n) == <<[lab |-> "isoformat", ip |-> n, fp |-> 0]>>

\* a genesis block linked to the empty string
create_genesis_block_unlinked(n) ==
    Block(PyInt(0), isoformat(n), PyDict(<< <<"data", PyStr(<<W("Genesis"), W("Block")>>)>> >>),
          <<>>)

create_genesis_block(n) ==
    Block(PyInt(0), isoformat(n), PyDict(<< <<"data", PyStr(<<W("Genesis"), W("Block")>>)>> >>),
          <<W("0")>>)

get_latest_block(c) == c[Len(c)]

(***************************************************************************)
(* Storage: the file hopper/blockchain.json.                               *)
(***************************************************************************)
NoFile == [exists |-> FALSE, parses |-> FALSE, doc |-> <<>>]
\* a file that is not a JSON document (for one, a file of zero bytes)
BadFile == [exists |-> TRUE, parses |-> FALSE, doc |-> <<>>]
JsonFile(doc) == [exists |-> TRUE, parses |-> TRUE, doc |-> doc]

\* save_chain called before the new block is appended
save_chain_early(c) ==
    JsonFile([i \in 1..(Len(c) - 1) |-> ToJson(to_dict(c[i]))])

\* what save_chain writes
save_chain(c) == JsonFile([i \in 1..Len(c) |-> ToJson(to_dict(c[i]))])

\* what load_chain returns for a file that parses (or does not exist)
load_chain(f) ==
    IF ~f.exists
    THEN <<>>
    ELSE LET data == [i \in 1..Len(f.doc) |-> FromJson(f.doc[i])]
         IN [i \in 1..Len(data) |->
               Block(Get(data[i], "index"), Get(data[i], "timestamp").v,
                     Get(data[i], "data"), Get(data[i], "previous_hash").v)]

(***************************************************************************)
(* GenAIConfidenceAssessment, NLPResponse and NLPBlockchain.               *)
(***************************************************************************)
GenAIConfidenceAssessment(reliability, performance, context_coherence) ==
    [reliability |-> reliability, performance |-> performance,
     context_coherence |-> context_coherence]

assessment_to_dict(a) ==
    PyDict(<< <<"reliability", PyFloat(a.reliability)>>,
              <<"performance", PyFloat(a.performance)>>,
              <<"context_coherence", PyFloat(a.context_coherence)>>,
              <<"overall_confidence", PyFloat(calculate_overall_confidence(a))>> >>)

NLPResponse(response_type, content, assessment) ==
    [response_type |-> response_type, content |-> content, assessment |-> assessment]

\* the data add_nlp_response hands to add_block
nlp_response_data(response) ==
    PyDict(<< <<"response_type", PyStr(response.response_type)>>,
              <<"content", PyStr(response.content)>>,
              <<"assessment", assessment_to_dict(response.assessment)>> >>)

\* add_block numbering from 1: index = len(self.chain) + 1
add_block_from_one(c, data, n) ==
    Append(c, Block(PyInt(Len(c) + 1), isoformat(n), data, get_latest_block(c).hash))

\* the chain after add_block(data) at clock reading n
add_block(c, data, n) ==
    LET index == PyInt(Len(c))
        timestamp == isoformat(n)
        previous_hash == get_latest_block(c).hash
        new_block == Block(index, timestamp, data, previous_hash)
    IN Append(c, new_block)

\* the loop of query_knowledge over the blocks it is given
RECURSIVE query_loop(_, _)
query_loop(blocks, q) ==
    IF blocks = <<>>
    THEN <<>>
    ELSE (IF Contains(lower(json_dumps(Head(blocks).data)), lower(q))
          THEN <<Head(blocks).data>>
          ELSE <<>>) \o query_loop(Tail(blocks), q)

\* query_knowledge without the [1:]
query_knowledge_all(c, q) == query_loop(c, q)

query_knowledge(c, q) == query_loop(Tail(c), q)

(***************************************************************************)
(* integrated_nlp_blockchain_system.py: EvaluationCriteria, the responses  *)
(* and its NLPBlockchain.                                                  *)
(***************************************************************************)
Criterion(reason, confidence, boolean_value) ==
    PyDict(<< <<"reason", PyStr(reason)>>, <<"confidence", PyFloat(confidence)>>,
              <<"boolean", PyBool(boolean_value)>> >>)

\* EvaluationCriteria().criteria
EvaluationCriteria ==
    PyDict(<< <<"Grammatically Complete", Criterion(<<>>, 0, FALSE)>>,
              <<"Logically Consistent", Criterion(<<>>, 0, FALSE)>>,
              <<"AI Inquiry", Criterion(<<>>, 0, FALSE)>>,
              <<"Content Language", Criterion(<<>>, 0, FALSE)>> >>)

\* the criteria after update_criterion, for a criterion they have
update_criterion(criteria, criterion, reason, confidence, boolean_value) ==
    PyDict([i \in 1..Len(criteria.v) |->
              IF criteria.v[i][1] = criterion
              THEN <<criterion, Criterion(reason, confidence, boolean_value)>>
              ELSE criteria.v[i]])

RECURSIVE SumConfidence(_)
SumConfidence(items) ==
    IF items = <<>> THEN 0
    ELSE Get(Head(items)[2], "confidence").v + SumConfidence(Tail(items))

criteria_overall_confidence(criteria) ==
    SumConfidence(criteria.v) \div Len(criteria.v)

SummaryResponse(summary, key_points, evaluation) ==
    [response_type |-> <<W("Summary")>>,
     content |-> PyDict(<< <<"summary", PyStr(summary)>>, <<"key_points", key_points>> >>),
     evaluation |-> evaluation]

TranslationResponse(translated_text, source_language, target_language, evaluation) ==
    [response_type |-> <<W("Translation")>>,
     content |-> PyDict(<< <<"translated_text", PyStr(translated_text)>>,
                           <<"source_language", PyStr(source_language)>>,
                           <<"target_language", PyStr(target_language)>> >>),
     evaluation |-> evaluation]

\* the data the integrated add_nlp_response hands to add_block
integrated_response_data(response) ==
    PyDict(<< <<"response_type", PyStr(response.response_type)>>,
              <<"content", response.content>>,
              <<"evaluation", response.evaluation>>,
              <<"overall_confidence",
                PyFloat(criteria_overall_confidence(response.evaluation))>> >>)

\* the loop of the integrated query_knowledge
RECURSIVE integrated_query_loop(_, _)
integrated_query_loop(blocks, q) ==
    IF blocks = <<>>
    THEN <<>>
    ELSE (IF Contains(lower(py_repr(Head(blocks).data)), lower(q))
          THEN <<Head(blocks).data>>
          ELSE <<>>) \o integrated_query_loop(Tail(blocks), q)

integrated_query_knowledge(c, q) == integrated_query_loop(Tail(c), q)

(***************************************************************************)
(* process_grace_response.                                                 *)
(***************************************************************************)
MARKER == "GenAI Confidence Assessment:"
\* the message returned after an append (the overall confidence it goes on
\* to quote is the one stored in the new Record)
ADDED == "Response added to the blockchain."

\* "EXIT" in grace_response.upper()
HasEXIT_anycase(text) == \E i \in 1..Len(text) : LowerOf(text[i].lab) = "exit"

\* "EXIT" in grace_response
HasEXIT(text) == \E i \in 1..Len(text) : text[i].lab = "EXIT"

\* re.split(r'GenAI Confidence Assessment:', text, flags=re.IGNORECASE)[0]
split_first(text) ==
    LET hits == {i \in 1..Len(text) : LowerOf(text[i].lab) = LowerOf(MARKER)}
    IN IF hits = {}
       THEN text
       ELSE SubSeq(text, 1, (CHOOSE i \in hits : \A j \in hits : i <= j) - 1)

\* the number of characters of one token's text
CharsOf(t) ==
    (CASE t.lab \in {"\n"} -> 1
       [] t.lab \in {"\\n"} -> 2
       [] t.lab \in {"word", "EXIT", "exit"} -> 4
       [] t.lab \in {"Block"} -> 5
       [] t.lab \in {"context", "CONTEXT", "Genesis", "genesis"} -> 7
       [] LowerOf(t.lab) \in {"reliability:", "performance:"} -> 12
       [] LowerOf(t.lab) = "context coherence:" -> 18
       [] OTHER -> 28)
    + (IF t.ip >= 0 THEN 4 ELSE 0)

\* s[:n]: the tokens that fit in n characters; a token cut short keeps the
\* number of its characters that are left
RECURSIVE slice(_, _)
slice(s, n) ==
    IF s = <<>> \/ n <= 0
    THEN <<>>
    ELSE IF CharsOf(Head(s)) <= n
         THEN <<Head(s)>> \o slice(Tail(s), n - CharsOf(Head(s)) - 1)
         ELSE <<[lab |-> Head(s).lab, ip |-> Head(s).ip, fp |-> Head(s).fp, cut |-> n]>>

\* the content and the assessment process_grace_response records
content_of(grace_response) == strip(split_first(grace_response))

assessment_of(grace_response) ==
    LET scores == extract_confidence_scores(grace_response)
    IN GenAIConfidenceAssessment(scores[1], scores[2], scores[3])

response_of(grace_response) ==
    NLPResponse(<<W("Conversation")>>,
                replace_newlines(content_of(grace_response)),
                assessment_of(grace_response))

(***************************************************************************)
(* Inputs.                                                                 *)
(***************************************************************************)
ScoreTokens ==
    {N("Reliability:", 0, 9), N("Reliability:", 1, 0), N("reliability:", 0, 9),
     N("Performance:", 0, 8), N("Context Coherence:", 0, 7)}

Tokens ==
    {W("word"), W("context"), NL, W("EXIT"), W(MARKER),
     W("genai confidence assessment:")} \cup ScoreTokens

\* the replies of the text generator the ledger is driven with
LedgerReplies ==
    { <<NL, W("Genesis"), NL, W("Block"), NL>>,
      <<W("context"), NL, W(MARKER), N("Reliability:", 0, 9), N("Performance:", 0, 8),
        N("Context Coherence:", 0, 7)>>,
      <<W("exit")>>,
      <<W("word"), W("EXIT"), W(MARKER)>> }

Queries ==
    { <<>>, <<W("genesis")>>, <<W("Genesis"), W("\\\\n"), W("Block")>>, <<W("CONTEXT")>> }

\* the responses the integrated program is driven with
IntegratedResponses ==
    { SummaryResponse(<<W("word")>>, PyNone, EvaluationCriteria),
      SummaryResponse(<<W("Genesis"), W("Block")>>, PyList(<<PyStr(<<W("context")>>)>>),
                      update_criterion(EvaluationCriteria, "Grammatically Complete",
                                       <<W("word")>>, 11400, TRUE)),
      TranslationResponse(<<W("word")>>, <<W("English")>>, <<W("Russian")>>,
                          update_criterion(EvaluationCriteria, "Content Language",
                                           <<W("context")>>, 10800, TRUE)) }

NoCall == [chain |-> <<>>, file |-> NoFile, context |-> <<>>]

(***************************************************************************)
(* The program.                                                            *)
(***************************************************************************)
Init ==
    /\ variant \in {"grace-cli", "integrated"}
    /\ ledger = "closed"
    /\ chain = <<>>
    /\ file \in IF variant = "grace-cli" THEN {NoFile, JsonFile(<<>>), BadFile} ELSE {NoFile}
    /\ context = <<>>
    /\ now = 0
    /\ reply = <<>>
    /\ result = ""
    /\ before = NoCall
    /\ saved = <<>>
    /\ query = <<>>
    /\ results = <<>>
    /\ opened = "never"
    /\ appended = 0
    /\ tampers = 0

\* nlp_chain = NLPBlockchain() at import, then main() up to its loop
Open ==
    /\ variant = "grace-cli"
    /\ ledger = "closed"
    /\ reply' = <<>>
    /\ result' = ""
    /\ before' = NoCall
    /\ query' = <<>>
    /\ results' = <<>>
    /\ context' = <<>>
    /\ UNCHANGED <<variant, tampers>>
    /\ IF file.exists /\ ~file.parses
       THEN \* json.load raises json.JSONDecodeError
            /\ opened' = "JSONDecodeError"
            /\ UNCHANGED <<ledger, chain, file, now, saved, appended>>
       ELSE IF load_chain(file) # <<>>
            THEN /\ chain' = load_chain(file)
                 /\ ledger' = "open"
                 /\ opened' = "loaded"
                 /\ UNCHANGED <<file, now, saved, appended>>
            ELSE \E dt \in 0..1 :
                 /\ now + dt <= MaxClock
                 /\ now' = now + dt
                 /\ chain' = <<create_genesis_block(now')>>
                 /\ file' = save_chain(chain')
                 /\ saved' = chain'
                 /\ ledger' = "open"
                 /\ opened' = "genesis"
                 /\ appended' = 0

\* process_grace_response(grace_response, context), called by main's loop
Record(grace_response) ==
    /\ variant = "grace-cli"
    /\ ledger = "open"
    /\ result # "exit"
    /\ reply' = grace_response
    /\ before' = [chain |-> chain, file |-> file, context |-> context]
    /\ query' = <<>>
    /\ results' = <<>>
    /\ UNCHANGED <<variant, ledger, opened, tampers>>
    /\ IF HasEXIT(grace_response)
       THEN /\ result' = "exit"
            /\ UNCHANGED <<chain, file, context, now, saved, appended>>
       ELSE \E dt \in 0..1 :
            /\ now + dt <= MaxClock
            /\ Len(chain) <= MaxBlocks
            /\ now' = now + dt
            /\ chain' = add_block(chain, nlp_response_data(response_of(grace_response)), now')
            /\ file' = save_chain(chain')
            /\ saved' = chain'
            /\ appended' = appended + 1
            /\ result' = ADDED
            /\ context' = context \o <<NL, W("Added response:")>>
                            \o slice(content_of(grace_response), 100) \o <<W("...")>>

ProcessReply == \E grace_response \in LedgerReplies : Record(grace_response)

\* nlp_chain.query_knowledge(q)
Query ==
    /\ variant = "grace-cli"
    /\ ledger = "open"
    /\ \E q \in Queries :
         /\ query' = <<q>>
         /\ results' = query_knowledge(chain, q)
    /\ UNCHANGED <<variant, ledger, chain, file, context, now, reply, result, before,
                   saved, opened, appended, tampers>>

\* the process ends: main breaks out of its loop after "exit", or input() raises
Exit ==
    /\ ledger = "open"
    /\ ledger' = "closed"
    /\ chain' = <<>>
    /\ context' = <<>>
    /\ query' = <<>>
    /\ results' = <<>>
    /\ UNCHANGED <<variant, file, now, reply, result, before, saved, opened, appended,
                   tampers>>

\* integrated: nlp_chain = NLPBlockchain()
IntegratedOpen ==
    /\ variant = "integrated"
    /\ ledger = "closed"
    /\ \E dt \in 0..1 :
         /\ now + dt <= MaxClock
         /\ now' = now + dt
         /\ chain' = <<create_genesis_block(now')>>
    /\ ledger' = "open"
    /\ opened' = "genesis"
    /\ appended' = 0
    /\ UNCHANGED <<variant, file, context, reply, result, before, saved, query, results,
                   tampers>>

\* integrated: nlp_chain.add_nlp_response(response)
IntegratedAdd ==
    /\ variant = "integrated"
    /\ ledger = "open"
    /\ Len(chain) <= MaxBlocks
    /\ \E response \in IntegratedResponses : \E dt \in 0..1 :
         /\ now + dt <= MaxClock
         /\ now' = now + dt
         /\ chain' = add_block(chain, integrated_response_data(response), now')
    /\ appended' = appended + 1
    /\ query' = <<>>
    /\ results' = <<>>
    /\ UNCHANGED <<variant, ledger, file, context, reply, result, before, saved, opened,
                   tampers>>

\* integrated: nlp_chain.query_knowledge(q)
IntegratedQuery ==
    /\ variant = "integrated"
    /\ ledger = "open"
    /\ \E q \in Queries :
         /\ query' = <<q>>
         /\ results' = integrated_query_knowledge(chain, q)
    /\ UNCHANGED <<variant, ledger, chain, file, context, now, reply, result, before,
                   saved, opened, appended, tampers>>

Next ==
    \/ Open
    \/ ProcessReply
    \/ Query
    \/ Exit
    \/ IntegratedOpen
    \/ IntegratedAdd
    \/ IntegratedQuery

Spec == Init /\ [][Next]_vars

(***************************************************************************)
(* The file edited outside the program, between two runs.                  *)
(***************************************************************************)
SetItem(obj, key, val) ==
    [obj EXCEPT !.v = [k \in 1..Len(obj.v) |->
                         IF obj.v[k][1] = key THEN <<key, val>> ELSE obj.v[k]]]

Edited(obj, key) ==
    CASE key = "index" ->
           SetItem(obj, key, [t |-> "number", v |-> Get(obj, key).v + 1, point |-> FALSE])
      [] key = "data" ->
           SetItem(obj, key, ToJson(PyDict(<< <<"data", PyStr(<<W("edited")>>)>> >>)))
      [] OTHER -> SetItem(obj, key, ToJson(PyStr(<<W("edited")>>)))

Tamper ==
    /\ ledger = "closed"
    /\ file.exists /\ file.parses
    /\ tampers < MaxTampers
    /\ \E i \in 1..Len(file.doc) :
       \E key \in {"index", "timestamp", "data", "previous_hash", "hash"} :
          file' = JsonFile([file.doc EXCEPT ![i] = Edited(file.doc[i], key)])
    /\ tampers' = tampers + 1
    /\ UNCHANGED <<variant, ledger, chain, context, now, reply, result, before, saved,
                   query, results, opened, appended>>

NextTamper == Next \/ Tamper

SpecTamper == Init /\ [][NextTamper]_vars

(***************************************************************************)
(* One reply recorded on a newly created ledger, for every reply.          *)
(***************************************************************************)
InitRecord ==
    /\ variant = "grace-cli"
    /\ ledger = "open"
    /\ chain = <<create_genesis_block(0)>>
    /\ file = save_chain(chain)
    /\ context = <<>>
    /\ now = 0
    /\ reply = <<>>
    /\ result = ""
    /\ before = NoCall
    /\ saved = chain
    /\ query = <<>>
    /\ results = <<>>
    /\ opened = "genesis"
    /\ appended = 0
    /\ tampers = 0

RecordAny ==
    /\ result = ""
    /\ \E grace_response \in SeqsUpTo(Tokens, MaxTextLen) : Record(grace_response)

SpecRecord == InitRecord /\ [][RecordAny]_vars

(***************************************************************************)
(* The claims.                                                             *)
(***************************************************************************)
\* the Python dicts the file holds, one per persisted Record
Persisted == [i \in 1..Len(file.doc) |-> FromJson(file.doc[i])]

\* C1: after N appends to a newly created ledger the chain has N+1 Records
\* and the Record at position i (counted from 0) has index i.
C1_ContiguousIndices ==
    ledger = "open" =>
        /\ Len(chain) = appended + 1
        /\ \A i \in 1..Len(chain) : chain[i].index = PyInt(i - 1)

C1_Witness ==
    ledger = "open" /\ opened = "genesis" /\ appended = MaxBlocks /\ Len(chain) = MaxBlocks + 1

\* C2: in every state of a ledger the program built or re-opened from its own
\* file, every non-genesis Record carries its predecessor's hash as
\* previous_hash and the hash of its own four other fields as hash.
C2_HashChain ==
    ledger = "open" =>
        \A i \in 2..Len(chain) :
            /\ chain[i].previous_hash = chain[i - 1].hash
            /\ chain[i].hash = calculate_hash(chain[i].index, chain[i].timestamp,
                                              chain[i].data, chain[i].previous_hash)

C2_Witness ==
    /\ ledger = "open" /\ opened = "loaded"
    /\ Len(chain) = 3
    /\ \E k \in 1..Len(Get(chain[2].data, "content").v) :
           Get(chain[2].data, "content").v[k] = ESCNL

\* C3 (as claimed): a ledger is never opened on a file in which a stored hash
\* differs from the recomputed hash of its Record or a previous_hash differs
\* from the predecessor's stored hash.
StoredVerifies ==
    \A i \in 1..Len(Persisted) :
        /\ Get(Persisted[i], "hash").v =
               calculate_hash(Get(Persisted[i], "index"), Get(Persisted[i], "timestamp").v,
                              Get(Persisted[i], "data"), Get(Persisted[i], "previous_hash").v)
        /\ i > 1 => Get(Persisted[i], "previous_hash").v = Get(Persisted[i - 1], "hash").v

C3_OpenRejectsTampered ==
    (ledger = "open" /\ opened = "loaded" /\ result = "") => StoredVerifies

C5_RoundTrip ==
    (ledger = "open" /\ opened = "loaded" /\ result = "") =>
        /\ Len(chain) = Len(saved)
        /\ \A i \in 1..Len(saved) :
             /\ chain[i].index = saved[i].index
             /\ chain[i].timestamp = saved[i].timestamp
             /\ chain[i].data = saved[i].data
             /\ chain[i].previous_hash = saved[i].previous_hash
             /\ chain[i].hash = saved[i].hash

C5_Witness ==
    /\ ledger = "open" /\ opened = "loaded" /\ result = ""
    /\ Len(chain) = 3 /\ Len(saved) = 3
    /\ \E i \in 2..3 : \E k \in 1..Len(Get(chain[i].data, "content").v) :
           Get(chain[i].data, "content").v[k] = ESCNL

\* C6: a reply that contains EXIT returns the exit result and leaves the
\* chain, the file and the context as they were; any other reply appends
\* exactly one Record.
C6_ExitAppendsNothing ==
    (ledger = "open" /\ result # "") =>
        IF \E i \in 1..Len(reply) : reply[i].lab = "EXIT"
        THEN /\ result = "exit"
             /\ chain = before.chain
             /\ file = before.file
             /\ context = before.context
        ELSE /\ result = ADDED
             /\ Len(chain) = Len(before.chain) + 1
             /\ SubSeq(chain, 1, Len(before.chain)) = before.chain

C6_Witness ==
    /\ ledger = "open" /\ result = "exit"
    /\ Len(chain) = 2 /\ Len(reply) = 3 /\ context # <<>>

\* C7: query_knowledge returns the payloads of exactly the non-genesis
\* Records whose serialized payload contains the query, letter case ignored,
\* in chain order; the genesis payload is never among them.
C7_QueryResults ==
    (ledger = "open" /\ query # <<>>) =>
        LET q == query[1]
            serialized(d) == IF variant = "grace-cli" THEN json_dumps(d) ELSE py_repr(d)
            hit == {i \in 2..Len(chain) :
                      Contains(lower(serialized(chain[i].data)), lower(q))}
        IN /\ Len(results) = Cardinality(hit)
           /\ \E f \in [1..Len(results) -> hit] :
                /\ \A a, b \in 1..Len(results) : a < b => f[a] < f[b]
                /\ \A a \in 1..Len(results) : results[a] = chain[f[a]].data
           /\ \A a \in 1..Len(results) : results[a] # chain[1].data

C7_Witness ==
    /\ ledger = "open" /\ query = << <<W("genesis")>> >>
    /\ Len(chain) = 3 /\ Len(results) = 1 /\ results[1] = chain[3].data

RecordedScores ==
    LET a == Get(get_latest_block(chain).data, "assessment")
    IN <<Get(a, "reliability").v, Get(a, "performance").v, Get(a, "context_coherence").v>>

\* the scores of the first Reliability/Performance/Context Coherence block of a
\* text, labels in any letter case and any float taken as given; <<>> if none
ExplicitBlock(text) ==
    LET Labelled(from, label) ==
            LET hits == {i \in (from + 1)..Len(text) :
                           LowerOf(text[i].lab) = label /\ text[i].ip >= 0}
            IN IF hits = {} THEN 0 ELSE CHOOSE i \in hits : \A j \in hits : i <= j
        r == Labelled(0, "reliability:")
        p == IF r = 0 THEN 0 ELSE Labelled(r, "performance:")
        c == IF p = 0 THEN 0 ELSE Labelled(p, "context coherence:")
    IN IF c = 0 THEN <<>> ELSE <<FloatOf(text[r]), FloatOf(text[p]), FloatOf(text[c])>>

\* C9 (as claimed): the recorded scores are those of the explicit block
\* whenever the text has one, labels in any letter case and values outside
\* [0,1] passed through; the heuristic is used only when there is none.
C9_ExplicitScoresParsed ==
    (ledger = "open" /\ result = ADDED) =>
        IF ExplicitBlock(reply) # <<>>
        THEN RecordedScores = ExplicitBlock(reply)
        ELSE RecordedScores = calculate_confidence_scores(reply)

\* the reply from its first marker on; <<>> if it has no marker
FromMarker(text) ==
    LET hits == {i \in 1..Len(text) : LowerOf(text[i].lab) = LowerOf(MARKER)}
    IN IF hits = {}
       THEN <<>>
       ELSE SubSeq(text, CHOOSE i \in hits : \A j \in hits : i <= j, Len(text))

\* C10 (as claimed): the recorded content is the trimmed part of the reply
\* before the first marker, and the recorded scores are those of the part
\* from the marker on, whatever stands before the marker.
C10_ScoresFromMarkerOn ==
    (ledger = "open" /\ result = ADDED /\ FromMarker(reply) # <<>>) =>
        /\ Get(get_latest_block(chain).data, "content").v =
               replace_newlines(strip(SubSeq(reply, 1, Len(reply) - Len(FromMarker(reply)))))
        /\ RecordedScores = extract_confidence_scores(FromMarker(reply))

====
